---- MODULE Spec2Model ----
(***************************************************************************)
(* Spending_Analyzer_Dashboard: the anomaly detectors and the recharge     *)
(* tracker of src/frontend/dashboard.py and of                             *)
(* src/singleUserDatasetGenerator/anomalyDetector.py, and the dashboard's  *)
(* analysis cycle.                                                         *)
(*                                                                         *)
(* A DataFrame is [columns |-> set of column names, rows |-> sequence of   *)
(* rows]; a row is a function from the column names to values; the index   *)
(* label of a row is its position in the sequence.  A frame returned by a  *)
(* detector is the sequence of the index labels of the rows it holds.      *)
(* Instants are whole seconds; `date` is a day number and `time` the       *)
(* second of the day.                                                      *)
(***************************************************************************)
EXTENDS Integers, Sequences, FiniteSets, TLC

VARIABLES df, clock, op, out, data_source, uploaded_file, upi_sim_initialized,
          db, simulator, ui

vars == <<df, clock, op, out, data_source, uploaded_file, upi_sim_initialized,
          db, simulator, ui>>

(***************************************************************************)
(* Bounds of the model.                                                    *)
(***************************************************************************)
\* the largest number of rows of a table
MaxRows == 3
\* the largest number of seconds that pass between two reads of the clock
MaxDrift == 2
\* the largest number of seconds the clock runs past the first instant
MaxClock == 4
\* the largest number of transactions the simulator inserts
MaxInserts == 2

(***************************************************************************)
(* Program constants.                                                      *)
(***************************************************************************)
SecondsPerMinute == 60
SecondsPerDay == 86400
window_minutes == 3
spike_multiplier == 10

\* float('nan'): what pandas holds for a missing cell
NaN == "NaN"

\* RECHARGE_VALIDITY: plan price -> validity in days
RECHARGE_VALIDITY ==
    [a \in {149, 199, 239, 299, 349, 399, 179, 269, 187, 247, 319} |->
        IF a = 149 THEN 20 ELSE 28]

REQUIRED_COLUMNS ==
    {"date", "time", "amount", "merchant", "txn_type", "category", "city"}

\* Python's == on two string cells: NaN (a missing cell) is equal to nothing,
\* itself included
PyEq(a, b) == a # NaN /\ b # NaN /\ a = b

\* Python's == on two amounts (the amount column has no missing cell)
NumEq(a, b) == a = b

\* pd.to_datetime(df['date'] + ' ' + df['time']) of one row
to_datetime(r) == r.date * SecondsPerDay + r.time

(***************************************************************************)
(* Sorting: df.sort_values('timestamp') is stable on these small frames,   *)
(* and with ascending=False pandas reverses, sorts stably and reverses     *)
(* back, so ties keep the frame's order in both directions.                *)
(***************************************************************************)
RECURSIVE InsertAsc(_, _, _)
InsertAsc(rows, s, i) ==
    IF s = <<>> THEN <<i>>
    ELSE IF rows[i].timestamp < rows[Head(s)].timestamp
         THEN <<i>> \o s
         ELSE <<Head(s)>> \o InsertAsc(rows, Tail(s), i)

RECURSIVE InsertDesc(_, _, _)
InsertDesc(rows, s, i) ==
    IF s = <<>> THEN <<i>>
    ELSE IF rows[i].timestamp > rows[Head(s)].timestamp
         THEN <<i>> \o s
         ELSE <<Head(s)>> \o InsertDesc(rows, Tail(s), i)

\* the mutant of sort_values: the frame is scanned in the order given
sort_values_unsorted(rows, labels) == labels

\* the row labels `labels`, stably by timestamp ascending
RECURSIVE sort_values(_, _)
sort_values(rows, labels) ==
    IF labels = <<>> THEN <<>>
    ELSE InsertAsc(rows, sort_values(rows, SubSeq(labels, 1, Len(labels) - 1)),
                   labels[Len(labels)])

\* the mutant of sort_values_desc: the purchases are visited in the frame's order
sort_values_desc_unsorted(rows, labels) == labels

\* the row labels `labels`, by timestamp descending, ties in the frame's order
RECURSIVE sort_values_desc(_, _)
sort_values_desc(rows, labels) ==
    IF labels = <<>> THEN <<>>
    ELSE InsertDesc(rows,
                    sort_values_desc(rows, SubSeq(labels, 1, Len(labels) - 1)),
                    labels[Len(labels)])

\* list(s) of a set of small ints: ascending
RECURSIVE list_of(_)
list_of(s) ==
    IF s = {} THEN <<>>
    ELSE LET m == CHOOSE x \in s : \A y \in s : x <= y
         IN <<m>> \o list_of(s \ {m})

\* range(len(df)) as labels
labels_of(rows) == [k \in 1..Len(rows) |-> k]

(***************************************************************************)
(* What a call returns: a frame (labels) or a list (of records).           *)
(***************************************************************************)
Frame(labels) == [kind |-> "frame", val |-> labels]

(***************************************************************************)
(* detect_duplicates, src/frontend/dashboard.py                            *)
(***************************************************************************)
\* (candidate['timestamp'] - current['timestamp']).total_seconds()
total_seconds(current, candidate) == candidate.timestamp - current.timestamp

\* the mutant of time_diff_exceeds: the window closed one second early
time_diff_exceeds_early(current, candidate) ==
    total_seconds(current, candidate) >= window_minutes * SecondsPerMinute

\* time_diff > 3, with time_diff = total_seconds / 60
time_diff_exceeds(current, candidate) ==
    total_seconds(current, candidate) > window_minutes * SecondsPerMinute

\* the mutant of ad_assign_timestamp: the column is rebuilt from the date alone
ad_assign_timestamp_date_only(d) ==
    [columns |-> d.columns \cup {"timestamp"},
     rows |-> [k \in 1..Len(d.rows) |->
                 [c \in DOMAIN d.rows[k] \cup {"timestamp"} |->
                     IF c = "timestamp" THEN d.rows[k].date * SecondsPerDay
                     ELSE d.rows[k][c]]]]

\* df['timestamp'] = pd.to_datetime(df['date'] + ' ' + df['time']): the
\* caller's frame gets the column
ad_assign_timestamp(d) ==
    [columns |-> d.columns \cup {"timestamp"},
     rows |-> [k \in 1..Len(d.rows) |->
                 [c \in DOMAIN d.rows[k] \cup {"timestamp"} |->
                     IF c = "timestamp" THEN to_datetime(d.rows[k])
                     ELSE d.rows[k][c]]]]

\* the `if` of lines 55-60: payment_mode is not compared
rows_match(current, candidate) ==
    /\ NumEq(current.amount, candidate.amount)
    /\ PyEq(current.merchant, candidate.merchant)
    /\ PyEq(current.txn_type, candidate.txn_type)
    /\ PyEq(current.city, candidate.city)

\* the inner loop, from j, for the row at position i of df_sorted
RECURSIVE scan_from(_, _, _, _, _)
scan_from(rows, df_sorted, i, j, duplicate_indices) ==
    IF j > Len(df_sorted) THEN duplicate_indices
    ELSE LET current == rows[df_sorted[i]]
             candidate == rows[df_sorted[j]]
         IN IF time_diff_exceeds(current, candidate)
            THEN duplicate_indices
            ELSE scan_from(rows, df_sorted, i, j + 1,
                     IF rows_match(current, candidate)
                     THEN duplicate_indices \cup {df_sorted[i], df_sorted[j]}
                     ELSE duplicate_indices)

\* the outer loop, from i
RECURSIVE scan_all(_, _, _, _)
scan_all(rows, df_sorted, i, duplicate_indices) ==
    IF i > Len(df_sorted) THEN duplicate_indices
    ELSE scan_all(rows, df_sorted, i + 1,
                  scan_from(rows, df_sorted, i, i + 1, duplicate_indices))

detect_duplicates(d) ==
    LET df_sorted == sort_values(d.rows, labels_of(d.rows))
        duplicate_indices == scan_all(d.rows, df_sorted, 1, {})
    IN Frame(sort_values(d.rows, list_of(duplicate_indices)))

(***************************************************************************)
(* detect_duplicates, src/singleUserDatasetGenerator/anomalyDetector.py    *)
(***************************************************************************)
\* the `if` of lines 31-37
ad_rows_match(current, candidate) ==
    /\ NumEq(current.amount, candidate.amount)
    /\ PyEq(current.merchant, candidate.merchant)
    /\ PyEq(current.txn_type, candidate.txn_type)
    /\ PyEq(current.payment_mode, candidate.payment_mode)
    /\ PyEq(current.city, candidate.city)

RECURSIVE ad_scan_from(_, _, _, _, _)
ad_scan_from(rows, df_sorted, i, j, duplicate_indices) ==
    IF j > Len(df_sorted) THEN duplicate_indices
    ELSE LET current == rows[df_sorted[i]]
             candidate == rows[df_sorted[j]]
         IN IF time_diff_exceeds(current, candidate)
            THEN duplicate_indices
            ELSE ad_scan_from(rows, df_sorted, i, j + 1,
                     IF ad_rows_match(current, candidate)
                     THEN duplicate_indices \cup {df_sorted[i], df_sorted[j]}
                     ELSE duplicate_indices)

RECURSIVE ad_scan_all(_, _, _, _)
ad_scan_all(rows, df_sorted, i, duplicate_indices) ==
    IF i > Len(df_sorted) THEN duplicate_indices
    ELSE ad_scan_all(rows, df_sorted, i + 1,
                     ad_scan_from(rows, df_sorted, i, i + 1, duplicate_indices))

\* the value returned, on the frame as line 19 left it
ad_detect_duplicates(d) ==
    LET d1 == ad_assign_timestamp(d)
        df_sorted == sort_values(d1.rows, labels_of(d1.rows))
        duplicate_indices == ad_scan_all(d1.rows, df_sorted, 1, {})
    IN Frame(sort_values(d1.rows, list_of(duplicate_indices)))

(***************************************************************************)
(* detect_spikes and detect_out_of_city: the same text in both files       *)
(***************************************************************************)
RECURSIVE InsertValue(_, _)
InsertValue(s, v) ==
    IF s = <<>> THEN <<v>>
    ELSE IF v < Head(s) THEN <<v>> \o s
         ELSE <<Head(s)>> \o InsertValue(Tail(s), v)

RECURSIVE SortValues(_)
SortValues(s) ==
    IF s = <<>> THEN <<>>
    ELSE InsertValue(SortValues(Tail(s)), Head(s))

\* twice df['amount'].median() of a frame with rows: the middle value, or the
\* average of the two central values (kept doubled, to stay in the integers)
median2(rows) ==
    LET s == SortValues([k \in 1..Len(rows) |-> rows[k].amount])
        n == Len(s)
    IN IF n % 2 = 1 THEN 2 * s[(n + 1) \div 2]
       ELSE s[n \div 2] + s[n \div 2 + 1]

\* the mutant of is_spike: >= for >
is_spike_or_equal(r, median_amt2) == 2 * r.amount >= spike_multiplier * median_amt2

\* df['amount'] > 10 * median_amt, for one row (both sides doubled)
is_spike(r, median_amt2) == 2 * r.amount > spike_multiplier * median_amt2

\* the median of no amounts is NaN, and no amount exceeds NaN
detect_spikes(d) ==
    IF d.rows = <<>> THEN Frame(<<>>)
    ELSE LET median_amt2 == median2(d.rows)
             keep(k) == is_spike(d.rows[k], median_amt2)
         IN Frame(SelectSeq(labels_of(d.rows), keep))

\* the mutant of city_differs: the comparison ignores case ("pune" is "Pune")
city_differs_nocase(city, base_city) ==
    LET fold(c) == IF c = "pune" THEN "Pune" ELSE c
    IN ~PyEq(fold(city), fold(base_city))

\* df['city'] != base_city, for one row
city_differs(city, base_city) == ~PyEq(city, base_city)

detect_out_of_city(d, base_city) ==
    LET keep(k) == city_differs(d.rows[k].city, base_city)
    IN Frame(SelectSeq(labels_of(d.rows), keep))

(***************************************************************************)
(* The recharge trackers.  datetime.now() is read from the wall clock at   *)
(* each call: `now` is the instant the next read returns and `drift` the   *)
(* seconds that pass after each read, before the next one.  A call yields  *)
(* its value and the clock it leaves.                                      *)
(***************************************************************************)
List(records) == [kind |-> "list", val |-> records]

\* the mutant of end_date_of: 28 days for every plan
end_date_of_28_days(row) == row.timestamp + 28 * SecondsPerDay

\* start_date + timedelta(days=validity_days)
end_date_of(row) ==
    row.timestamp + RECHARGE_VALIDITY[row.amount] * SecondsPerDay

\* strftime('%Y-%m-%d'): the day of an instant
strftime_date(t) == t \div SecondsPerDay

\* (end_date - datetime.now()).days: timedelta.days is the floor
days_of(delta) == delta \div SecondsPerDay

\* df[df['category'] == 'Recharge'].sort_values('timestamp', ascending=False)
recharge_df_of(d) ==
    LET keep(k) == PyEq(d.rows[k].category, "Recharge")
    IN sort_values_desc(d.rows, SelectSeq(labels_of(d.rows), keep))

\* the mutant of is_active: >= for >
is_active_or_due(end_date, now) == end_date >= now

\* end_date > datetime.now()
is_active(end_date, now) == end_date > now

\* (merchant, amount) in seen
already_seen(seen, merchant, amount) == <<merchant, amount>> \in seen

\* the mutant of seen_after: the pair is marked whether or not it was active
seen_after_regardless(seen, merchant, amount, active) ==
    seen \cup {<<merchant, amount>>}

\* seen after a catalog purchase was visited: seen.add((merchant, amount)) is
\* the last statement of the `if end_date > datetime.now()` block (line 95)
seen_after(seen, merchant, amount, active) ==
    IF active THEN seen \cup {<<merchant, amount>>} ELSE seen

\* the loop of detect_all_current_recharges from position p of recharge_df
RECURSIVE recharge_loop(_, _, _, _, _, _, _)
recharge_loop(rows, recharge_df, p, active_recharges, seen, now, drift) ==
    IF p > Len(recharge_df)
    THEN [active_recharges |-> active_recharges, clock |-> now, seen |-> seen]
    ELSE LET row == rows[recharge_df[p]]
             amount == row.amount
             merchant == row.merchant
         IN IF already_seen(seen, merchant, amount)
            THEN recharge_loop(rows, recharge_df, p + 1, active_recharges,
                               seen, now, drift)
            ELSE IF amount \notin DOMAIN RECHARGE_VALIDITY
            THEN recharge_loop(rows, recharge_df, p + 1, active_recharges,
                               seen, now, drift)
            ELSE LET start_date == row.timestamp
                     validity_days == RECHARGE_VALIDITY[amount]
                     end_date == end_date_of(row)
                     now2 == now + drift
                 IN IF is_active(end_date, now)
                    THEN recharge_loop(rows, recharge_df, p + 1,
                           Append(active_recharges,
                                  [Merchant |-> merchant,
                                   Amount |-> amount,
                                   Start_Date |-> strftime_date(start_date),
                                   Due_Date |-> strftime_date(end_date),
                                   Days_Remaining |-> days_of(end_date - now2),
                                   Validity_days |-> validity_days]),
                           seen_after(seen, merchant, amount, TRUE),
                           now2 + drift, drift)
                    ELSE recharge_loop(rows, recharge_df, p + 1,
                           active_recharges,
                           seen_after(seen, merchant, amount, FALSE),
                           now2, drift)

detect_all_current_recharges(d, now, drift) ==
    LET r == recharge_loop(d.rows, recharge_df_of(d), 1, <<>>, {}, now, drift)
    IN [result |-> List(r.active_recharges), clock |-> r.clock]

\* any(r['merchant'] == row['merchant'] and r['start_date'] >= start_date ...)
already_tracked(active_recharges, row) ==
    \E k \in 1..Len(active_recharges) :
        /\ PyEq(active_recharges[k].merchant, row.merchant)
        /\ active_recharges[k].start_date >= row.timestamp

\* the loop of anomalyDetector's detect_current_recharge
RECURSIVE ad_recharge_loop(_, _, _, _, _, _)
ad_recharge_loop(rows, recharge_df, p, active_recharges, now, drift) ==
    IF p > Len(recharge_df)
    THEN [active_recharges |-> active_recharges, clock |-> now]
    ELSE LET row == rows[recharge_df[p]]
             amount == row.amount
         IN IF amount \notin DOMAIN RECHARGE_VALIDITY
            THEN ad_recharge_loop(rows, recharge_df, p + 1, active_recharges,
                                  now, drift)
            ELSE LET validity_days == RECHARGE_VALIDITY[amount]
                     start_date == row.timestamp
                     end_date == end_date_of(row)
                 IN IF is_active(end_date, now)
                       /\ ~already_tracked(active_recharges, row)
                    THEN ad_recharge_loop(rows, recharge_df, p + 1,
                           Append(active_recharges,
                                  [start_date |-> start_date,
                                   end_date |-> end_date,
                                   merchant |-> row.merchant,
                                   amount |-> amount,
                                   validity_days |-> validity_days]),
                           now + drift, drift)
                    ELSE ad_recharge_loop(rows, recharge_df, p + 1,
                           active_recharges, now + drift, drift)

detect_current_recharge(d, now, drift) ==
    LET r == ad_recharge_loop(d.rows, recharge_df_of(d), 1, <<>>, now, drift)
    IN [result |-> List(r.active_recharges), clock |-> r.clock]

(***************************************************************************)
(* The tables the detectors are given.  Each family varies the fields one  *)
(* detector reads; every table is handed to every detector.                *)
(***************************************************************************)
\* the instant of the first read of the clock: day 40, 10:00:00
Now0 == 40 * SecondsPerDay + 36000

AllColumns == REQUIRED_COLUMNS \cup {"payment_mode", "timestamp"}

\* a row as the callers hand it to a detector: the CSV's cells and
\* df['timestamp'] = pd.to_datetime(df['date'] + ' ' + df['time'])
\* (dashboard.py line 169, anomalyDetector.py line 15)
Row(date, time, amount, merchant, txn_type, category, city, payment_mode) ==
    LET cells == [date |-> date, time |-> time, amount |-> amount,
                  merchant |-> merchant, txn_type |-> txn_type,
                  category |-> category, city |-> city,
                  payment_mode |-> payment_mode]
    IN [c \in DOMAIN cells \cup {"timestamp"} |->
           IF c = "timestamp" THEN to_datetime(cells) ELSE cells[c]]

\* near-simultaneous payments: 180 s, 181 s and 361 s apart, payment_mode
\* given, different or missing
DupRows ==
    {Row(40, t, 349, "Jio", "debit", "Recharge", "Pune", "UPI") :
        t \in {36000, 36180, 36361}}
    \cup {Row(40, 36000, 349, "Jio", "debit", "Recharge", "Pune", pm) :
        pm \in {"Card", NaN}}

\* amounts around ten times the median
SpikeRows ==
    {Row(40, 36000, a, "Swiggy", "debit", "Food", "Pune", "UPI") :
        a \in {0, 10, 100, 101}}

\* cities equal to, differing in case from, and other than the home city
CityRows ==
    {Row(40, 36000, 349, "Ola", "debit", "Transport", c, "UPI") :
        c \in {"Pune", "pune", "Goa"}}
    \cup {Row(40, 36000, 349, "Ola", "credit", "Transport", "Pune", "UPI")}

\* recharges bought 28 days, 28 days less a second and 10 days before Now0,
\* and an amount with no plan
RechargeRows ==
    {Row(12, 36000, 349, "Airtel", "debit", "Recharge", "Pune", "UPI"),
     Row(12, 36001, 349, "Jio", "debit", "Recharge", "Pune", "UPI"),
     Row(30, 36000, 349, "Jio", "debit", "Recharge", "Pune", "UPI"),
     Row(30, 36000, 149, "Jio", "debit", "Recharge", "Pune", "UPI"),
     Row(30, 36000, 349, "Airtel", "debit", "Recharge", "Pune", "UPI"),
     Row(30, 36000, 500, "Jio", "debit", "Recharge", "Pune", "UPI")}

SeqsUpTo(S, n) == UNION {[1..k -> S] : k \in 0..n}

InputTables ==
    {[columns |-> AllColumns, rows |-> rows] :
        rows \in SeqsUpTo(DupRows, MaxRows) \cup SeqsUpTo(SpikeRows, MaxRows)
                 \cup SeqsUpTo(CityRows, MaxRows)
                 \cup SeqsUpTo(RechargeRows, MaxRows)}

BaseCities == {"Pune", "Goa"}

(***************************************************************************)
(* The state: the table, the wall clock, the last detector call and what   *)
(* it returned; and the dashboard's session (further down).                *)
(***************************************************************************)
\* op: the detector called last, its base_city argument ("" when it has none)
\* and the clock when it was called; out: what it returned
NoCall == [name |-> "none", arg |-> "", now |-> 0]
NoOut == [kind |-> "none", val |-> <<>>]
\* uploaded_file = None
NoFile == [columns |-> {}, rows |-> <<>>]

\* what a run of the dashboard script put on the page: the columns named by
\* the "Missing columns" warning, the "Could not clean the database" warning,
\* the "Started UPI simulator" notice, the generic "Something went wrong"
\* error, the "Please upload" prompt, the detectors that were run and the
\* four results
NoResults == <<>>
NoUi ==
    [missing |-> {}, clean_warning |-> FALSE, started |-> FALSE,
     error |-> FALSE, prompt |-> FALSE, ran |-> {}, results |-> NoResults]

\* the session before the dashboard script has run: no file, no simulator,
\* no transactions table in simulated_transactions.db
SessionIdle ==
    /\ data_source = "Upload CSV"
    /\ uploaded_file = NoFile
    /\ upi_sim_initialized = FALSE
    /\ db = [exists |-> FALSE, rows |-> <<>>]
    /\ simulator = "not started"
    /\ ui = NoUi

session == <<data_source, uploaded_file, upi_sim_initialized, db, simulator, ui>>

Init ==
    /\ df \in InputTables
    /\ clock = Now0
    /\ op = NoCall
    /\ out = NoOut
    /\ SessionIdle

Call_detect_duplicates ==
    /\ op' = [name |-> "detect_duplicates", arg |-> "", now |-> clock]
    /\ out' = detect_duplicates(df)
    /\ UNCHANGED <<df, clock, session>>

\* anomalyDetector.py is run on a dataset that has the payment_mode column
Call_ad_detect_duplicates ==
    /\ op' = [name |-> "ad_detect_duplicates", arg |-> "", now |-> clock]
    /\ out' = ad_detect_duplicates(df)
    /\ df' = ad_assign_timestamp(df)
    /\ UNCHANGED <<clock, session>>

Call_detect_spikes ==
    /\ op' = [name |-> "detect_spikes", arg |-> "", now |-> clock]
    /\ out' = detect_spikes(df)
    /\ UNCHANGED <<df, clock, session>>

Call_detect_out_of_city ==
    \E base_city \in BaseCities :
        /\ op' = [name |-> "detect_out_of_city", arg |-> base_city, now |-> clock]
        /\ out' = detect_out_of_city(df, base_city)
        /\ UNCHANGED <<df, clock, session>>

Call_detect_all_current_recharges ==
    \E drift \in 0..MaxDrift :
        LET r == detect_all_current_recharges(df, clock, drift)
        IN /\ r.clock <= Now0 + MaxClock
           /\ op' = [name |-> "detect_all_current_recharges", arg |-> "", now |-> clock]
           /\ out' = r.result
           /\ clock' = r.clock
           /\ UNCHANGED <<df, session>>

Call_detect_current_recharge ==
    \E drift \in 0..MaxDrift :
        LET r == detect_current_recharge(df, clock, drift)
        IN /\ r.clock <= Now0 + MaxClock
           /\ op' = [name |-> "detect_current_recharge", arg |-> "", now |-> clock]
           /\ out' = r.result
           /\ clock' = r.clock
           /\ UNCHANGED <<df, session>>

Next ==
    \/ Call_detect_duplicates
    \/ Call_ad_detect_duplicates
    \/ Call_detect_spikes
    \/ Call_detect_out_of_city
    \/ Call_detect_all_current_recharges
    \/ Call_detect_current_recharge

Spec == Init /\ [][Next]_vars

(***************************************************************************)
(* Properties of the duplicate detectors                                   *)
(***************************************************************************)
N == Len(df.rows)

\* the labels of the frame returned last
Flagged == {out.val[k] : k \in 1..Len(out.val)}

\* the seconds between the timestamps of rows i and j
Apart(i, j) ==
    LET d == df.rows[i].timestamp - df.rows[j].timestamp
    IN IF d < 0 THEN 0 - d ELSE d

AgreeOnFour(a, b) ==
    /\ a.amount = b.amount
    /\ a.merchant = b.merchant
    /\ a.txn_type = b.txn_type
    /\ a.city = b.city

AgreeOnFive(a, b) == AgreeOnFour(a, b) /\ a.payment_mode = b.payment_mode

DupOps == {"detect_duplicates", "ad_detect_duplicates"}

\* C1, as claimed, of dashboard.py's detect_duplicates: two distinct
\* transactions at most 3 minutes (180 s) apart are both in the result if and
\* only if they agree on amount, merchant, txn_type, payment_mode and city
\* (stated of the transactions that have a payment_mode).
C1_BothFlaggedIffFiveFieldsAgree ==
    op.name = "detect_duplicates" =>
        \A i, j \in 1..N :
            (/\ i # j
             /\ Apart(i, j) <= 180
             /\ df.rows[i].payment_mode # NaN
             /\ df.rows[j].payment_mode # NaN) =>
                ((i \in Flagged /\ j \in Flagged)
                    <=> AgreeOnFive(df.rows[i], df.rows[j]))

\* anomalyDetector.py's detect_duplicates compares all five fields: a row is
\* in its result exactly when another row within 180 s agrees with it on the
\* five fields, payment_mode given
ad_FlaggedIffFiveFieldPartner ==
    op.name = "ad_detect_duplicates" =>
        \A i \in 1..N :
            i \in Flagged <=>
                \E j \in 1..N :
                    /\ j # i
                    /\ Apart(i, j) <= 180
                    /\ AgreeOnFive(df.rows[i], df.rows[j])
                    /\ df.rows[i].payment_mode # NaN

\* identical in all matched fields, the payment_mode given
Identical(i, j) ==
    /\ AgreeOnFive(df.rows[i], df.rows[j])
    /\ df.rows[i].payment_mode # NaN

\* what the detector called last compares
DetectorMatch(i, k) ==
    IF op.name = "detect_duplicates"
    THEN AgreeOnFour(df.rows[i], df.rows[k])
    ELSE Identical(i, k)

\* another transaction matches i within the window
OtherMatch(i) ==
    \E k \in 1..N : k # i /\ Apart(i, k) <= 180 /\ DetectorMatch(i, k)

\* C2: two transactions identical in all matched fields exactly 180 s apart
\* are both in the result of detect_duplicates (either file); when they are
\* more than 180 s apart, each is in the result only if some other
\* transaction matches it within the window.
C2_WindowBoundary ==
    op.name \in DupOps =>
        \A i, j \in 1..N :
            (i # j /\ Identical(i, j)) =>
                /\ Apart(i, j) = 180 => (i \in Flagged /\ j \in Flagged)
                /\ (Apart(i, j) > 180 /\ ~OtherMatch(i)) => i \notin Flagged

\* C2's case: a pair 180 s apart, flagged, and an identical transaction 181 s
\* after the second of them, not flagged
C2_Witness ==
    /\ op.name \in DupOps
    /\ \E i, j, k \in 1..N :
        /\ Identical(i, j) /\ Identical(j, k)
        /\ Apart(i, j) = 180 /\ Apart(j, k) = 181
        /\ df.rows[i].timestamp < df.rows[j].timestamp
        /\ df.rows[j].timestamp < df.rows[k].timestamp
        /\ i \in Flagged /\ j \in Flagged /\ k \notin Flagged

(***************************************************************************)
(* Properties of the recharge trackers                                     *)
(***************************************************************************)
RechargeOps == {"detect_all_current_recharges", "detect_current_recharge"}

RechargeLabels == {k \in 1..N : df.rows[k].category = "Recharge"}

\* the (merchant, amount) pairs of the Recharge purchases
Pairs == {<<df.rows[k].merchant, df.rows[k].amount>> : k \in RechargeLabels}

PurchasesOf(p) ==
    {k \in RechargeLabels : <<df.rows[k].merchant, df.rows[k].amount>> = p}

\* the instant of the most recent purchase of a pair
LatestOf(p) ==
    CHOOSE t \in {df.rows[k].timestamp : k \in PurchasesOf(p)} :
        \A k \in PurchasesOf(p) : df.rows[k].timestamp <= t

InCatalog(amount) == amount \in DOMAIN RECHARGE_VALIDITY

\* purchase instant + validity days of the amount, for a catalog amount
DueOf(timestamp, amount) == timestamp + RECHARGE_VALIDITY[amount] * 86400

\* the pair of a record of the list returned last (the two files name the
\* fields differently)
RecPair(rec) ==
    IF op.name = "detect_all_current_recharges"
    THEN <<rec.Merchant, rec.Amount>>
    ELSE <<rec.merchant, rec.amount>>

RecordsOf(p) == {k \in 1..Len(out.val) : RecPair(out.val[k]) = p}

\* the record is the one built from a purchase of its pair made at t
BuiltFrom(rec, t) ==
    IF op.name = "detect_all_current_recharges"
    THEN /\ rec.Start_Date = t \div 86400
         /\ rec.Due_Date = DueOf(t, rec.Amount) \div 86400
         /\ rec.Validity_days = RECHARGE_VALIDITY[rec.Amount]
    ELSE /\ rec.start_date = t
         /\ rec.end_date = DueOf(t, rec.amount)
         /\ rec.validity_days = RECHARGE_VALIDITY[rec.amount]

\* the claim of C3 of the tracker `name`, for a call during which the clock
\* stood at op.now: one record for each pair whose most recent purchase has a
\* catalog amount and a due date after now, built from that purchase, and no
\* other record
OneRecordPerActivePair(name) ==
    (op.name = name /\ clock = op.now) =>
        /\ \A k \in 1..Len(out.val) : RecPair(out.val[k]) \in Pairs
        /\ \A p \in Pairs :
            IF InCatalog(p[2]) /\ DueOf(LatestOf(p), p[2]) > op.now
            THEN /\ Cardinality(RecordsOf(p)) = 1
                 /\ \A k \in RecordsOf(p) : BuiltFrom(out.val[k], LatestOf(p))
            ELSE RecordsOf(p) = {}

\* C3, as claimed, of both trackers: exactly one ActiveRecharge for each
\* (merchant, amount) pair whose most recent purchase has a catalog amount and
\* a due date after now, built from the most recent purchase, and no other.
C3_OneRecordPerActivePair ==
    /\ OneRecordPerActivePair("detect_all_current_recharges")
    /\ OneRecordPerActivePair("detect_current_recharge")

\* dashboard.py's detect_all_current_recharges does what C3 says
dashboard_OneRecordPerActivePair ==
    OneRecordPerActivePair("detect_all_current_recharges")

\* C4: a purchase is active only when its due date is strictly later than
\* now.  Of a call made at op.now that left the clock at `clock`: every
\* record belongs to a pair with a catalog purchase due after op.now (so a
\* purchase with due date == now yields none), and the most recent catalog
\* Recharge purchase of a merchant, when due after `clock`, yields a record
\* (so a purchase due at now + 1 second does, the clock standing still).
C4_ActiveOnlyStrictlyAfterNow ==
    op.name \in RechargeOps =>
        /\ \A r \in 1..Len(out.val) :
            \E k \in PurchasesOf(RecPair(out.val[r])) :
                /\ InCatalog(df.rows[k].amount)
                /\ DueOf(df.rows[k].timestamp, df.rows[k].amount) > op.now
        /\ \A k \in RechargeLabels :
            (/\ InCatalog(df.rows[k].amount)
             /\ DueOf(df.rows[k].timestamp, df.rows[k].amount) > clock
             /\ \A j \in RechargeLabels \ {k} :
                    (/\ df.rows[j].merchant = df.rows[k].merchant
                     /\ InCatalog(df.rows[j].amount))
                        => df.rows[j].timestamp < df.rows[k].timestamp)
                => RecordsOf(<<df.rows[k].merchant, df.rows[k].amount>>) # {}

\* C4's case: the clock stood at now during the call; the only purchase of one
\* pair has due date == now and no record, a purchase of another pair has due
\* date == now + 1 second and a record
C4_Witness ==
    /\ op.name \in RechargeOps
    /\ clock = op.now
    /\ \E k, j \in RechargeLabels :
        LET pk == <<df.rows[k].merchant, df.rows[k].amount>>
            pj == <<df.rows[j].merchant, df.rows[j].amount>>
        IN /\ InCatalog(pk[2]) /\ InCatalog(pj[2])
           /\ PurchasesOf(pk) = {k}
           /\ DueOf(df.rows[k].timestamp, pk[2]) = op.now
           /\ RecordsOf(pk) = {}
           /\ DueOf(df.rows[j].timestamp, pj[2]) = op.now + 1
           /\ RecordsOf(pj) # {}

\* C5, as claimed, of detect_all_current_recharges: days_remaining is
\* (due_date - now) floored to whole days for an instant now of the call at
\* which due_date > now held, hence never negative.
C5_DaysRemainingFromTheCheckedNow ==
    op.name = "detect_all_current_recharges" =>
        \A r \in 1..Len(out.val) :
            /\ out.val[r].Days_Remaining >= 0
            /\ \E k \in PurchasesOf(RecPair(out.val[r])), n \in op.now..clock :
                LET due == DueOf(df.rows[k].timestamp, df.rows[k].amount)
                IN /\ due > n
                   /\ out.val[r].Days_Remaining = (due - n) \div 86400

(***************************************************************************)
(* Properties of the spike and locality detectors                          *)
(***************************************************************************)
AmountOf(k) == df.rows[k].amount

\* the k-th smallest amount of the table: fewer than k amounts are below it
\* and at least k are not above it
KthAmount(k) ==
    CHOOSE v \in {AmountOf(i) : i \in 1..N} :
        /\ Cardinality({i \in 1..N : AmountOf(i) < v}) < k
        /\ Cardinality({i \in 1..N : AmountOf(i) <= v}) >= k

\* twice the conventional median of the amounts of a table with rows
TwiceMedian ==
    IF N % 2 = 1 THEN 2 * KthAmount((N + 1) \div 2)
    ELSE KthAmount(N \div 2) + KthAmount(N \div 2 + 1)

\* C6: detect_spikes returns exactly the transactions whose amount strictly
\* exceeds 10 times the median amount of the whole table (amount > 10 * median
\* is 2 * amount > 10 * twice the median), each once; so an amount equal to
\* 10 x median is not returned, with median 0 every positive amount is, and
\* an all-zero table returns nothing.
C6_SpikesStrictlyAboveTenTimesMedian ==
    op.name = "detect_spikes" =>
        /\ Cardinality(Flagged) = Len(out.val)
        /\ Flagged \subseteq 1..N
        /\ \A i \in 1..N :
            i \in Flagged <=> 2 * AmountOf(i) > 10 * TwiceMedian

\* C6's case: a positive amount equal to 10 x median, not returned
C6_Witness ==
    /\ op.name = "detect_spikes"
    /\ \E i \in 1..N :
        /\ AmountOf(i) > 0
        /\ 2 * AmountOf(i) = 10 * TwiceMedian
        /\ i \notin Flagged

\* C7: detect_out_of_city(table, home_city) returns exactly the transactions
\* of the table whose city is not the string home_city, each once.
C7_OutOfCityExactly ==
    op.name = "detect_out_of_city" =>
        /\ Cardinality(Flagged) = Len(out.val)
        /\ Flagged \subseteq 1..N
        /\ \A i \in 1..N : i \in Flagged <=> df.rows[i].city # op.arg

\* C7's case: home city "Pune"; a "Pune" row is absent, a "pune" row and a
\* "Goa" row are present
C7_Witness ==
    /\ op.name = "detect_out_of_city"
    /\ op.arg = "Pune"
    /\ \E i, j, k \in 1..N :
        /\ df.rows[i].city = "Pune" /\ i \notin Flagged
        /\ df.rows[j].city = "pune" /\ j \in Flagged
        /\ df.rows[k].city = "Goa" /\ k \in Flagged

(***************************************************************************)
(* Properties of all four detectors                                        *)
(***************************************************************************)
\* C8, as claimed: a detector called twice in succession on the same table
\* (with the same argument) returns the same output both times.
C8_SameOutputTwice ==
    [][(/\ op.name # "none"
        /\ op'.name = op.name
        /\ op'.arg = op.arg
        /\ df' = df) => out' = out]_vars

\* C9: no detector call changes the table it is given: the same rows, the
\* same columns and the same values after as before.
C9_TableUnchanged == [][df' = df]_vars

\* C9's case: anomalyDetector.py's detect_duplicates, which assigns
\* df['timestamp'] on the caller's frame, has been called on a table with rows
C9_Witness ==
    /\ op.name = "ad_detect_duplicates"
    /\ N > 0
    /\ \A k \in 1..N : df.rows[k].timestamp = to_datetime(df.rows[k])

(***************************************************************************)
(* The dashboard script (src/frontend/dashboard.py, lines 108-391), run    *)
(* top to bottom by Streamlit on every interaction, and the simulator      *)
(* process (src/upi_simulator.py) it starts.                               *)
(***************************************************************************)
CSV == "Upload CSV"
UPI == "Connect to UPI (dummy simulation)"

\* the columns of the simulator's transactions table
DbColumns == REQUIRED_COLUMNS \cup {"transaction_id"}

\* the rows of a CSV file, before any column is taken away
CsvRows ==
    {[date |-> 40, time |-> 36000, amount |-> 120, merchant |-> "Swiggy",
      txn_type |-> "debit", category |-> "Food", city |-> "Goa",
      payment_mode |-> "UPI"]}

\* the headers of the CSV files: all columns, the required ones, and headers
\* that lack one or two required columns
CsvHeaders ==
    {REQUIRED_COLUMNS \cup {"payment_mode"}, REQUIRED_COLUMNS,
     REQUIRED_COLUMNS \ {"city"}, REQUIRED_COLUMNS \ {"city", "merchant"}}

Project(r, columns) == [c \in columns |-> r[c]]

CsvFiles ==
    {[columns |-> h, rows |-> [k \in 1..Len(rows) |-> Project(rows[k], h)]] :
        h \in CsvHeaders, rows \in SeqsUpTo(CsvRows, MaxRows)}

\* df['timestamp'] = pd.to_datetime(df['date'] + ' ' + df['time'])
add_timestamp(d) ==
    [columns |-> d.columns \cup {"timestamp"},
     rows |-> [k \in 1..Len(d.rows) |->
                 [c \in DOMAIN d.rows[k] \cup {"timestamp"} |->
                     IF c = "timestamp" THEN to_datetime(d.rows[k])
                     ELSE d.rows[k][c]]]]

\* pd.DataFrame(): what stands for a result when df.empty
EmptyFrame == [kind |-> "frame", val |-> <<>>]

\* `df[col] = []` raises ValueError on a frame with rows (the lengths differ)
assign_missing_raises(d) == d.rows # <<>>

\* the mutant of first_upi_run: the session flag is not looked at
first_upi_run_every(ds) == ds = UPI

\* lines 112-143: the first run with the UPI source clears the table and
\* starts the simulator
first_upi_run(ds) == ds = UPI /\ ~upi_sim_initialized

\* the mutant of df_empty: the detectors are run on every frame
df_empty_never(d) == FALSE

\* df.empty: the frame has no rows (or no columns)
df_empty(d) == d.rows = <<>> \/ d.columns = {}

\* the four results when df.empty: pd.DataFrame() each
EmptyResults ==
    [duplicates |-> EmptyFrame, spikes |-> EmptyFrame,
     out_city |-> EmptyFrame, current_recharges |-> EmptyFrame]

\* lines 174-178: each detector is called unless df.empty; detect_duplicates
\* raises KeyError on a frame that has no timestamp column
run_detectors(d, now, drift) ==
    IF df_empty(d)
    THEN [error |-> FALSE, ran |-> {}, results |-> EmptyResults, clock |-> now]
    ELSE IF "timestamp" \notin d.columns
    THEN [error |-> TRUE, ran |-> {"detect_duplicates"},
          results |-> NoResults, clock |-> now]
    ELSE LET r == detect_all_current_recharges(d, now, drift)
         IN [error |-> FALSE,
             ran |-> {"detect_duplicates", "detect_spikes",
                      "detect_out_of_city", "detect_all_current_recharges"},
             results |-> [duplicates |-> detect_duplicates(d),
                          spikes |-> detect_spikes(d),
                          out_city |-> detect_out_of_city(d, "Pune"),
                          current_recharges |-> r.result],
             clock |-> r.clock]

\* lines 151-386 for the table read: what the page shows, the df of the cycle
\* and the clock it leaves
analyse(table, now, drift) ==
    LET missing_cols == REQUIRED_COLUMNS \ table.columns
    IN IF missing_cols # {} /\ assign_missing_raises(table)
       THEN [missing |-> missing_cols, error |-> TRUE, ran |-> {},
             results |-> NoResults, df |-> table, clock |-> now]
       ELSE LET d == IF missing_cols # {}
                     THEN [columns |-> table.columns \cup REQUIRED_COLUMNS,
                           rows |-> <<>>]
                     ELSE add_timestamp(table)
                r == run_detectors(d, now, drift)
            IN [missing |-> missing_cols, error |-> r.error, ran |-> r.ran,
                results |-> r.results, df |-> d, clock |-> r.clock]

\* one run of the script with the widgets at ds and file.  Popen returns at
\* once and nothing waits for the simulator: its create_db runs before the
\* script's read (in_time) or after the script has ended (SimCreateDb)
RunScript(ds, file) ==
    \E drift \in 0..MaxDrift, in_time \in BOOLEAN :
        LET first == first_upi_run(ds)
            \* DELETE FROM transactions, or "Could not clean the database"
            db1 == IF first /\ db.exists THEN [db EXCEPT !.rows = <<>>] ELSE db
            clean_warning == first /\ ~db.exists
            \* psutil finds no upi_simulator.py process: Popen
            launch == first /\ simulator = "not started"
            created == launch /\ in_time
            db2 == IF created THEN [db1 EXCEPT !.exists = TRUE] ELSE db1
            analysed == (ds = CSV /\ file # NoFile) \/ ds = UPI
            \* pd.read_sql raises when there is no transactions table
            read_fails == ds = UPI /\ ~db2.exists
            table == IF ds = CSV THEN file
                     ELSE [columns |-> DbColumns, rows |-> db2.rows]
            \* df is bound only by a read that succeeds
            a == IF analysed /\ ~read_fails
                 THEN analyse(table, clock, drift)
                 ELSE [missing |-> {}, error |-> analysed, ran |-> {},
                       results |-> NoResults, df |-> NoFile, clock |-> clock]
        IN /\ in_time => launch
           /\ a.clock <= Now0 + MaxClock
           /\ data_source' = ds
           /\ uploaded_file' = file
           /\ upi_sim_initialized' = (ds = UPI)
           /\ db' = db2
           /\ simulator' = IF created THEN "running"
                           ELSE IF launch THEN "started" ELSE simulator
           /\ df' = a.df
           /\ clock' = a.clock
           /\ ui' = [missing |-> a.missing, clean_warning |-> clean_warning,
                     started |-> launch, error |-> a.error,
                     prompt |-> ~analysed, ran |-> a.ran,
                     results |-> a.results]
           /\ UNCHANGED <<op, out>>

\* the radio button is set; the uploader is shown, and holds a file, only
\* with the CSV source
SelectSource == \E ds \in {CSV, UPI} : ds # data_source /\ RunScript(ds, NoFile)

\* a CSV file is put in the uploader
UploadFile == \E f \in CsvFiles : data_source = CSV /\ RunScript(CSV, f)

\* the refresh button, or any other interaction: the script runs again
Rerun == RunScript(data_source, uploaded_file)

\* upi_simulator.py, main: create_db()
SimCreateDb ==
    /\ simulator = "started"
    /\ simulator' = "running"
    /\ db' = [db EXCEPT !.exists = TRUE]
    /\ UNCHANGED <<df, clock, op, out, data_source, uploaded_file,
                   upi_sim_initialized, ui>>

\* what generate_transaction draws: amount, merchant, category, city
SimDraws ==
    {[amount |-> 349, merchant |-> "Jio", txn_type |-> "debit",
      category |-> "Recharge", city |-> "Pune"],
     [amount |-> 5000, merchant |-> "Mom", txn_type |-> "credit",
      category |-> "Income", city |-> "Pune"]}

\* upi_simulator.py, main: one turn of the loop, generate_transaction and
\* insert_transaction
SimInsert ==
    /\ simulator = "running"
    /\ Len(db.rows) < MaxInserts
    /\ \E g \in SimDraws :
        db' = [db EXCEPT !.rows =
                 Append(@, [transaction_id |-> Len(db.rows) + 1,
                            date |-> clock \div SecondsPerDay,
                            time |-> clock % SecondsPerDay,
                            amount |-> g.amount, merchant |-> g.merchant,
                            txn_type |-> g.txn_type, category |-> g.category,
                            city |-> g.city])]
    /\ UNCHANGED <<df, clock, op, out, data_source, uploaded_file,
                   upi_sim_initialized, simulator, ui>>

AppInit ==
    /\ df = NoFile
    /\ clock = Now0
    /\ op = NoCall
    /\ out = NoOut
    /\ SessionIdle

AppNext ==
    \/ SelectSource
    \/ UploadFile
    \/ Rerun
    \/ SimCreateDb
    \/ SimInsert

AppSpec == AppInit /\ [][AppNext]_vars

\* C10, as claimed: when the ingested table lacks required columns, the cycle
\* reports one validation error naming the missing columns, runs no detector
\* and raises no other, generic, error.
C10_MissingColumnsOnlyValidationError ==
    (/\ data_source = CSV
     /\ uploaded_file # NoFile
     /\ REQUIRED_COLUMNS \ uploaded_file.columns # {}) =>
        /\ ui.missing = REQUIRED_COLUMNS \ uploaded_file.columns
        /\ ui.ran = {}
        /\ ~ui.error

\* the cycle shown on the page read a table (df is bound)
CycleRead == ~ui.prompt /\ df.columns # {}

\* C11: a cycle of the dashboard on a table with no rows shows four empty
\* results and no error, whatever columns the table has; and on a table of
\* one transaction, when the detectors are run, the duplicates are empty.
C11_EmptyTableEmptyResults ==
    /\ (CycleRead /\ df.rows = <<>>) =>
            /\ ~ui.error
            /\ ui.results # NoResults
            /\ \A name \in DOMAIN ui.results : ui.results[name].val = <<>>
    /\ (CycleRead /\ Len(df.rows) = 1 /\ "detect_duplicates" \in ui.ran) =>
            /\ ~ui.error
            /\ ui.results.duplicates.val = <<>>

\* C11's case: a CSV file with a header that lacks columns and no rows was
\* analysed: the warning names the columns and the results are empty
C11_Witness ==
    /\ CycleRead
    /\ data_source = CSV
    /\ df.rows = <<>>
    /\ ui.missing # {}
    /\ ui.results = EmptyResults
    /\ ~ui.error

\* a cycle on a table of one transaction ran the detectors
C11_OneTransactionRan ==
    /\ CycleRead
    /\ Len(df.rows) = 1
    /\ "detect_duplicates" \in ui.ran
    /\ ui.results.duplicates.val = <<>>

(***************************************************************************)
(* The scan of detect_duplicates against the comparison of every pair      *)
(***************************************************************************)
\* the match predicate of the detector called last
DetectorRowsMatch(a, b) ==
    IF op.name = "detect_duplicates" THEN rows_match(a, b)
    ELSE ad_rows_match(a, b)

\* every unordered pair compared: the rows that match another row at most
\* 3 minutes from them
PairwiseFlagged ==
    {i \in 1..N :
        \E j \in 1..N :
            /\ j # i
            /\ Apart(i, j) <= window_minutes * SecondsPerMinute
            /\ DetectorRowsMatch(df.rows[i], df.rows[j])}

\* C12: the sorted scan that breaks at the first candidate more than 3
\* minutes later returns the same set of rows as the comparison of every
\* unordered pair with the same match predicate and the same bound.
C12_ScanEqualsPairwise ==
    op.name \in DupOps => Flagged = PairwiseFlagged

\* C12's case: a table not in timestamp order, with two transactions at the
\* same timestamp that are flagged and an identical one, first in the table,
\* more than 3 minutes later, that is not
C12_Witness ==
    /\ op.name \in DupOps
    /\ \E i, j, k \in 1..N :
        /\ i < j /\ j < k
        /\ df.rows[i].timestamp > df.rows[j].timestamp + 180
        /\ df.rows[j].timestamp = df.rows[k].timestamp
        /\ Identical(i, j) /\ Identical(j, k)
        /\ Flagged = {j, k}

(***************************************************************************)
(* The seen set of detect_all_current_recharges                            *)
(***************************************************************************)
\* the loop of the call made last, run again with `drift` seconds passing
\* after each reading of the clock: its records and its seen set at the end
TrackerRun(drift) ==
    recharge_loop(df.rows, recharge_df_of(df), 1, <<>>, {}, op.now, drift)

\* the pairs whose most recent purchase has a catalog amount: the loop
\* visits that purchase before any older one of the pair
CatalogPairs == {p \in Pairs : InCatalog(p[2])}

\* the most recent purchase of the pair is due at or before the call
Lapsed(p) == DueOf(LatestOf(p), p[2]) <= op.now

\* C13, as claimed, of dashboard.py's detect_all_current_recharges: every
\* pair whose most recent purchase has a catalog amount is marked seen when
\* that purchase has been visited, active or not; and when the most recent
\* purchase of a pair has lapsed the output has no record of the pair.
C13_SeenWhetherOrNotActive ==
    op.name = "detect_all_current_recharges" =>
        /\ \A drift \in 0..MaxDrift : CatalogPairs \subseteq TrackerRun(drift).seen
        /\ \A p \in CatalogPairs : Lapsed(p) => RecordsOf(p) = {}

\* C13, amended: a pair is marked seen exactly when a record of it has been
\* emitted (a lapsed purchase marks nothing and blocks nothing), and still,
\* when the most recent purchase of a pair has lapsed, the output has no
\* record of the pair, its older purchases having lapsed before it.
C13_SeenOnlyWhenActive ==
    op.name = "detect_all_current_recharges" =>
        /\ \A drift \in 0..MaxDrift :
            LET r == TrackerRun(drift)
            IN r.seen = {<<r.active_recharges[k].Merchant,
                           r.active_recharges[k].Amount>> :
                            k \in 1..Len(r.active_recharges)}
        /\ \A p \in CatalogPairs : Lapsed(p) => RecordsOf(p) = {}

\* C13's case: two purchases of one pair, the most recent of them lapsed, and
\* a purchase of another pair that is active: the first pair is not in seen
\* and has no record, the second has one
C13_Witness ==
    /\ op.name = "detect_all_current_recharges"
    /\ \E p, q \in CatalogPairs :
        /\ Cardinality(PurchasesOf(p)) = 2
        /\ Lapsed(p)
        /\ RecordsOf(p) = {}
        /\ \A drift \in 0..MaxDrift : p \notin TrackerRun(drift).seen
        /\ RecordsOf(q) # {}

(***************************************************************************)
(* Transactions with no payment_mode in the duplicate detectors            *)
(***************************************************************************)
NoPaymentMode(i) == df.rows[i].payment_mode = NaN

\* C14, as claimed, of both copies of detect_duplicates: a transaction with
\* no payment_mode is in the result if and only if another transaction within
\* 3 minutes, equal to it in amount, merchant, txn_type and city, has no
\* payment_mode either.
C14_MissingPaymentModeEqualOnlyToMissing ==
    op.name \in DupOps =>
        \A i \in 1..N :
            NoPaymentMode(i) =>
                (i \in Flagged <=>
                    \E j \in 1..N :
                        /\ j # i
                        /\ Apart(i, j) <= 180
                        /\ AgreeOnFour(df.rows[i], df.rows[j])
                        /\ NoPaymentMode(j))

\* what anomalyDetector.py's detect_duplicates does instead: a transaction
\* with no payment_mode is never in its result
ad_MissingPaymentModeNeverFlagged ==
    op.name = "ad_detect_duplicates" =>
        \A i \in 1..N : NoPaymentMode(i) => i \notin Flagged

\* what dashboard.py's detect_duplicates does instead: the payment_mode plays
\* no part
dashboard_PaymentModeIgnored ==
    op.name = "detect_duplicates" =>
        \A i \in 1..N :
            i \in Flagged <=>
                \E j \in 1..N :
                    /\ j # i
                    /\ Apart(i, j) <= 180
                    /\ AgreeOnFour(df.rows[i], df.rows[j])

(***************************************************************************)
(* The order of the records of the recharge trackers                       *)
(***************************************************************************)
\* the purchase instants from which the record can have been built: the
\* list of anomalyDetector.py holds the instant, the frame of dashboard.py
\* the day and the pair
StartsOf(rec) ==
    IF op.name = "detect_all_current_recharges"
    THEN {df.rows[k].timestamp : k \in
            {j \in PurchasesOf(RecPair(rec)) :
                df.rows[j].timestamp \div 86400 = rec.Start_Date}}
    ELSE {rec.start_date}

\* the due instants of the record
DuesOf(rec) == {DueOf(t, RecPair(rec)[2]) : t \in StartsOf(rec)}

\* C15: the records are in the order of the purchases, most recent first:
\* of two records, the one before the other was built from a purchase that
\* is not older.
C15_MostRecentPurchaseFirst ==
    op.name \in RechargeOps =>
        \A a, b \in 1..Len(out.val) :
            a < b =>
                /\ StartsOf(out.val[a]) # {}
                /\ StartsOf(out.val[b]) # {}
                /\ \A ta \in StartsOf(out.val[a]), tb \in StartsOf(out.val[b]) :
                        ta >= tb

\* C15's case: the purchases stand in the table oldest first, and of the two
\* records the first is of the later purchase and has the later due date
C15_Witness ==
    /\ op.name \in RechargeOps
    /\ Len(out.val) = 2
    /\ \E i, j \in RechargeLabels :
        /\ i < j
        /\ df.rows[i].timestamp < df.rows[j].timestamp
        /\ StartsOf(out.val[1]) = {df.rows[j].timestamp}
        /\ StartsOf(out.val[2]) = {df.rows[i].timestamp}
    /\ \A d1 \in DuesOf(out.val[1]), d2 \in DuesOf(out.val[2]) : d1 > d2

(***************************************************************************)
(* Amounts with no plan in the catalog                                     *)
(***************************************************************************)
\* C16: a Recharge purchase whose amount is not in RECHARGE_VALIDITY yields
\* no record and no error, and every record has the validity of its amount
\* in the catalog and the due date of a purchase of its pair plus that many
\* days.
C16_OnlyCatalogAmounts ==
    op.name \in RechargeOps =>
        /\ out.kind = "list"
        /\ \A p \in Pairs : ~InCatalog(p[2]) => RecordsOf(p) = {}
        /\ \A r \in 1..Len(out.val) :
            LET p == RecPair(out.val[r])
            IN /\ InCatalog(p[2])
               /\ \E k \in PurchasesOf(p) :
                    BuiltFrom(out.val[r], df.rows[k].timestamp)

\* C16's case: a purchase of an amount with no plan, more recent than any
\* other, without a record, and a record of a 20-day plan
C16_Witness ==
    /\ op.name \in RechargeOps
    /\ \E k \in RechargeLabels :
        /\ ~InCatalog(df.rows[k].amount)
        /\ \A j \in RechargeLabels : df.rows[j].timestamp <= df.rows[k].timestamp
        /\ RecordsOf(<<df.rows[k].merchant, df.rows[k].amount>>) = {}
    /\ \E r \in 1..Len(out.val) :
        RECHARGE_VALIDITY[RecPair(out.val[r])[2]] = 20

(***************************************************************************)
(* The session flag upi_sim_initialized                                    *)
(***************************************************************************)
\* s is t or t with rows added at its end
IsPrefix(s, t) == Len(s) <= Len(t) /\ SubSeq(t, 1, Len(s)) = s

\* C17: rows are deleted from the transactions table, and the simulator is
\* launched, only by a run of the script with the UPI source and the flag
\* upi_sim_initialized false; after a run the flag is true exactly when the
\* source is the UPI simulation; and from one state with the UPI source to
\* the next with it no row of the table is lost.
C17_ClearedOnlyOnFirstUpiRun ==
    [][/\ (\/ ~IsPrefix(db.rows, db'.rows)
           \/ (simulator = "not started" /\ simulator' # "not started")
           \/ (~ui.started /\ ui'.started))
            => (data_source' = UPI /\ ~upi_sim_initialized)
       /\ upi_sim_initialized' = (data_source' = UPI)
       /\ (data_source = UPI /\ data_source' = UPI)
            => IsPrefix(db.rows, db'.rows)]_vars

\* C17's case: a rerun that stayed on the UPI source read the rows inserted
\* since the first of them
C17_Witness ==
    /\ data_source = UPI
    /\ upi_sim_initialized
    /\ ~ui.started /\ ~ui.clean_warning
    /\ db.rows # <<>>
    /\ Len(df.rows) = Len(db.rows)
    /\ ui.ran # {}

(***************************************************************************)
(* The script's read of the table and the simulator's create_db            *)
(***************************************************************************)
\* C18, as claimed: a cycle with the UPI source reads the transactions table
\* only after create_db has made it, and never ends in the generic
\* "Something went wrong" error.
C18_ReadOnlyAfterCreateDb ==
    data_source = UPI => ~ui.error

\* the other order of the race: create_db ran before the read of the cycle
\* that launched the simulator, and the cycle showed the empty results
CreateDbInTime ==
    /\ data_source = UPI
    /\ ui.started
    /\ simulator = "running"
    /\ ~ui.error
    /\ ui.results = EmptyResults

====
